---- MODULE Spec2Model ----
(***************************************************************************)
(* Training entity of the functional DDD sample: the factory              *)
(* (createTraining), the status lifecycle (updateTrainingStatus,          *)
(* cancelTraining) of the tagged-union revision in                        *)
(* src/domain/training/functions.ts, the zod schema it re-validates       *)
(* against, and the date-range search (searchTrainings) over a collection *)
(* of entities. The enum-based revision of the lifecycle (status a plain  *)
(* enum value, the reason an optional cancelReason field) is modelled     *)
(* next to it, under the same names with the suffix Enum.                 *)
(*                                                                         *)
(* Strings are TLA+ strings; dates are clock readings in milliseconds.    *)
(* The error messages of the source are Japanese text, which the TLA+     *)
(* lexer does not admit in a string: each message is an ASCII rendering,  *)
(* one distinct string per distinct message of the source.                *)
(***************************************************************************)
EXTENDS Integers, Sequences, FiniteSets, TLC

VARIABLES
    now,        \* the wall clock read by new Date()
    training,   \* the entity the caller holds (NoTraining before creation)
    call,       \* the last call made: operation, input entity, argument, clock
    result,     \* the Result<Training> the last call returned
    history,    \* the status types the held entity has gone through, in order
    trainings,  \* the collection of entities the caller searches
    enumTraining, \* the entity of the enum-based revision the caller holds
    enumResult  \* what the last call of the enum-based revision returned

vars == <<now, training, call, result, history, trainings,
          enumTraining, enumResult>>

----------------------------------------------------------------------------
(* Bounds of the model *)

MaxClock == 3

MaxHistory == 4

\* capacity and price are JavaScript numbers, not integers: the model holds
\* them in units of 1/Scale, so that 1 stands for the fraction 1/Scale and
\* Scale for the number 1
Scale == 2

\* the number of instants in one calendar day: a Date is an instant, day k
\* runs from instant k * DayLength to instant (k + 1) * DayLength - 1
DayLength == 2

\* the largest collection searched
MaxTrainings == 2

----------------------------------------------------------------------------
(* Error messages *)

ErrTitleRequired       == "title is required"
ErrDescriptionRequired == "description is required"
ErrLocationRequired    == "location is required"
ErrCapacityPositive    == "capacity must be 1 or more"
ErrPriceNonnegative    == "price must be 0 or more"
ErrReasonRequired      == "cancel reason is required"
ErrReasonTooShort      == "cancel reason must be 5 characters or more"
ErrInvalidUuid         == "Invalid uuid"
ErrInvalidEnum         == "Invalid enum value"
ErrInvalidDiscriminator == "Invalid discriminator value"
ErrValidation          == "Validation error"
ErrDraftToCompleted    == "cannot update directly from draft to completed"
ErrCompletedImmutable  == "cannot change from completed"
ErrCanceledImmutable   == "a canceled training cannot be changed"
ErrInvalidStatus       == "an invalid status was specified"
ErrCompletedNoCancel   == "a completed training cannot be canceled"
ErrAlreadyCanceled     == "the training is already canceled"

----------------------------------------------------------------------------
(* Values *)

UUIDs == {"uuid-1", "uuid-2", "uuid-3", "uuid-4"}

TrainingLevel == {"BEGINNER", "INTERMEDIATE", "ADVANCED"}

StatusTypes == {"DRAFT", "OPEN", "COMPLETED", "CANCELED"}

\* the targets the signature of updateTrainingStatus admits
TypedTargets == {"DRAFT", "OPEN", "COMPLETED"}

\* the targets a caller can pass at run time, where the type is erased
RuntimeTargets == TypedTargets \cup {"CANCELED", "ARCHIVED"}

Reasons == {"", "ab", "abcd", "abcde", "instructor unavailable"}

Titles       == {"", "Agile"}
Descriptions == {"", "basics"}
Locations    == {"", "Tokyo"}
Capacities   == {-Scale, 0, 1, Scale, 20 * Scale}
Prices       == {-Scale, 0, 50000 * Scale}
Levels       == {"BEGINNER"}
Dates        == {20250601}

CreateTrainingInput ==
    [title : Titles, description : Descriptions, date : Dates,
     location : Locations, capacity : Capacities, level : Levels,
     price : Prices]

\* the instants of three consecutive days, from which search criteria are
\* drawn, and the instants entities are dated at: the first and the last
\* instant of the middle day
Instants == 0 .. (3 * DayLength - 1)

TrainingDates == {DayLength, 2 * DayLength - 1}

SearchTrainingCriteria == [startDate : Instants, endDate : Instants]

\* the entries of the collection: valid data but for the title, one per date
TrainingData ==
    [title : Titles, description : {"basics"}, date : TrainingDates,
     location : {"Tokyo"}, capacity : {20 * Scale}, level : Levels,
     price : {50000 * Scale}]

NoTraining == [none |-> TRUE]

NoCall == [op |-> "none"]

NoResult == [none |-> TRUE]

----------------------------------------------------------------------------
(* Result<T> *)

Success(v) == [success |-> TRUE, value |-> v]

Failure(e) == [success |-> FALSE, error |-> e]

isSuccess(r) == r.success

isError(r) == ~r.success

----------------------------------------------------------------------------
(* TrainingStatus: the tagged union and its factory *)

draft == [type |-> "DRAFT"]

open == [type |-> "OPEN"]

completed == [type |-> "COMPLETED"]

canceled(reason) == [type |-> "CANCELED", reason |-> reason]

----------------------------------------------------------------------------
(* zod: a schema yields the list of its issues, in the order of its checks *)
(* and of the keys of the object; safeParse succeeds when there is none.   *)

\* z.string().min(n, { message })
StringMin(s, n, message) == IF Len(s) < n THEN <<message>> ELSE <<>>

MinReasonRequired == 1

MinReasonLength == 5

\* the minimum length of the reason is off by one: .min(4)
TrainingStatusSchema_Min4(status) ==
    IF status.type \in {"DRAFT", "OPEN", "COMPLETED"} THEN <<>>
    ELSE IF status.type = "CANCELED"
         THEN StringMin(status.reason, MinReasonRequired, ErrReasonRequired)
              \o StringMin(status.reason, MinReasonLength - 1, ErrReasonTooShort)
         ELSE <<ErrInvalidDiscriminator>>

\* the two checks of the reason are chained in the other order
TrainingStatusSchema_ChecksSwapped(status) ==
    IF status.type \in {"DRAFT", "OPEN", "COMPLETED"} THEN <<>>
    ELSE IF status.type = "CANCELED"
         THEN StringMin(status.reason, MinReasonLength, ErrReasonTooShort)
              \o StringMin(status.reason, MinReasonRequired, ErrReasonRequired)
         ELSE <<ErrInvalidDiscriminator>>

\* z.discriminatedUnion('type', [...]): the CANCELED variant carries a reason
\* checked by .min(1) and then .min(5); a string check does not stop at the
\* first failure, so "" raises both issues, the required one first.
TrainingStatusSchema(status) ==
    IF status.type \in {"DRAFT", "OPEN", "COMPLETED"} THEN <<>>
    ELSE IF status.type = "CANCELED"
         THEN StringMin(status.reason, MinReasonRequired, ErrReasonRequired)
              \o StringMin(status.reason, MinReasonLength, ErrReasonTooShort)
         ELSE <<ErrInvalidDiscriminator>>

\* z.number().positive(): strictly greater than 0
NumberPositive(n, message) == IF n > 0 THEN <<>> ELSE <<message>>

\* z.number().nonnegative(): greater than or equal to 0
NumberNonnegative(n, message) == IF n >= 0 THEN <<>> ELSE <<message>>

\* z.object({...}): the issues of the keys, in the order the keys are declared
TrainingSchema(t) ==
    (IF t.id \in UUIDs THEN <<>> ELSE <<ErrInvalidUuid>>)
    \o StringMin(t.title, 1, ErrTitleRequired)
    \o StringMin(t.description, 1, ErrDescriptionRequired)
    \o StringMin(t.location, 1, ErrLocationRequired)
    \o NumberPositive(t.capacity, ErrCapacityPositive)
    \o (IF t.level \in TrainingLevel THEN <<>> ELSE <<ErrInvalidEnum>>)
    \o NumberNonnegative(t.price, ErrPriceNonnegative)
    \o TrainingStatusSchema(t.status)

\* the failure branch hands the rejected candidate back with the message
safeParse_ReturnsCandidate(t) ==
    LET errors == TrainingSchema(t)
    IN  IF errors # <<>>
        THEN [success |-> FALSE,
              error   |-> IF errors[1] # "" THEN errors[1] ELSE ErrValidation,
              value   |-> t]
        ELSE Success(t)

\* schema.safeParse(value), followed at every call site by
\*   if (!result.success) return { success: false,
\*        error: result.error.errors[0]?.message || 'Validation error' }
\*   return { success: true, value: result.data }
safeParse(t) ==
    LET errors == TrainingSchema(t)
    IN  IF errors # <<>>
        THEN Failure(IF errors[1] # "" THEN errors[1] ELSE ErrValidation)
        ELSE Success(t)

----------------------------------------------------------------------------
(* Variants of the operations with one rule changed. Each is the operation *)
(* as a plausible slip would leave it; the properties further down are     *)
(* checked to fail under them.                                             *)

\* the guard against Draft -> Completed is missing
updateTrainingStatus_NoDraftGuard(t, newStatus, clock) ==
    LET currentStatus == t.status.type
    IN  IF currentStatus = newStatus THEN Success(t)
        ELSE IF currentStatus = "COMPLETED" THEN Failure(ErrCompletedImmutable)
        ELSE IF currentStatus = "CANCELED" THEN Failure(ErrCanceledImmutable)
        ELSE IF newStatus \notin {"DRAFT", "OPEN", "COMPLETED"}
             THEN Failure(ErrInvalidStatus)
        ELSE safeParse([t EXCEPT !.status = [type |-> newStatus],
                                 !.updatedAt = clock])

\* the same-status early return is missing: a same-status call is treated
\* as any other transition
updateTrainingStatus_NoEarlyReturn(t, newStatus, clock) ==
    LET currentStatus == t.status.type
    IN  IF currentStatus = "DRAFT" /\ newStatus = "COMPLETED"
             THEN Failure(ErrDraftToCompleted)
        ELSE IF currentStatus = "COMPLETED" THEN Failure(ErrCompletedImmutable)
        ELSE IF currentStatus = "CANCELED" THEN Failure(ErrCanceledImmutable)
        ELSE IF newStatus \notin {"DRAFT", "OPEN", "COMPLETED"}
             THEN Failure(ErrInvalidStatus)
        ELSE safeParse([t EXCEPT !.status = [type |-> newStatus],
                                 !.updatedAt = clock])

\* the check that a Completed entity is immutable is missing
updateTrainingStatus_CompletedMutable(t, newStatus, clock) ==
    LET currentStatus == t.status.type
    IN  IF currentStatus = newStatus THEN Success(t)
        ELSE IF currentStatus = "DRAFT" /\ newStatus = "COMPLETED"
             THEN Failure(ErrDraftToCompleted)
        ELSE IF currentStatus = "CANCELED" THEN Failure(ErrCanceledImmutable)
        ELSE IF newStatus \notin {"DRAFT", "OPEN", "COMPLETED"}
             THEN Failure(ErrInvalidStatus)
        ELSE safeParse([t EXCEPT !.status = [type |-> newStatus],
                                 !.updatedAt = clock])

\* the messages of the Completed and of the Canceled check are exchanged
updateTrainingStatus_SwappedMessages(t, newStatus, clock) ==
    LET currentStatus == t.status.type
    IN  IF currentStatus = newStatus THEN Success(t)
        ELSE IF currentStatus = "DRAFT" /\ newStatus = "COMPLETED"
             THEN Failure(ErrDraftToCompleted)
        ELSE IF currentStatus = "COMPLETED" THEN Failure(ErrCanceledImmutable)
        ELSE IF currentStatus = "CANCELED" THEN Failure(ErrCompletedImmutable)
        ELSE IF newStatus \notin {"DRAFT", "OPEN", "COMPLETED"}
             THEN Failure(ErrInvalidStatus)
        ELSE safeParse([t EXCEPT !.status = [type |-> newStatus],
                                 !.updatedAt = clock])

\* the Draft -> Completed guard forgets to test the current status
updateTrainingStatus_WideDraftGuard(t, newStatus, clock) ==
    LET currentStatus == t.status.type
    IN  IF currentStatus = newStatus THEN Success(t)
        ELSE IF newStatus = "COMPLETED" THEN Failure(ErrDraftToCompleted)
        ELSE IF currentStatus = "COMPLETED" THEN Failure(ErrCompletedImmutable)
        ELSE IF currentStatus = "CANCELED" THEN Failure(ErrCanceledImmutable)
        ELSE IF newStatus \notin {"DRAFT", "OPEN", "COMPLETED"}
             THEN Failure(ErrInvalidStatus)
        ELSE safeParse([t EXCEPT !.status = [type |-> newStatus],
                                 !.updatedAt = clock])

\* the check that a Completed entity cannot be canceled is missing
cancelTraining_NoCompletedCheck(t, reason, clock) ==
    IF t.status.type = "CANCELED" THEN Failure(ErrAlreadyCanceled)
    ELSE safeParse([t EXCEPT !.status = canceled(reason),
                             !.updatedAt = clock])

\* the check that the entity is already canceled is missing
cancelTraining_NoCanceledCheck(t, reason, clock) ==
    IF t.status.type = "COMPLETED" THEN Failure(ErrCompletedNoCancel)
    ELSE safeParse([t EXCEPT !.status = canceled(reason),
                             !.updatedAt = clock])

\* the timestamp is not replaced on a transition
updateTrainingStatus_KeepsUpdatedAt(t, newStatus, clock) ==
    LET currentStatus == t.status.type
    IN  IF currentStatus = newStatus THEN Success(t)
        ELSE IF currentStatus = "DRAFT" /\ newStatus = "COMPLETED"
             THEN Failure(ErrDraftToCompleted)
        ELSE IF currentStatus = "COMPLETED" THEN Failure(ErrCompletedImmutable)
        ELSE IF currentStatus = "CANCELED" THEN Failure(ErrCanceledImmutable)
        ELSE IF newStatus \notin {"DRAFT", "OPEN", "COMPLETED"}
             THEN Failure(ErrInvalidStatus)
        ELSE safeParse([t EXCEPT !.status = [type |-> newStatus]])

\* the transition stamps createdAt where it should stamp updatedAt
updateTrainingStatus_StampsCreatedAt(t, newStatus, clock) ==
    LET currentStatus == t.status.type
    IN  IF currentStatus = newStatus THEN Success(t)
        ELSE IF currentStatus = "DRAFT" /\ newStatus = "COMPLETED"
             THEN Failure(ErrDraftToCompleted)
        ELSE IF currentStatus = "COMPLETED" THEN Failure(ErrCompletedImmutable)
        ELSE IF currentStatus = "CANCELED" THEN Failure(ErrCanceledImmutable)
        ELSE IF newStatus \notin {"DRAFT", "OPEN", "COMPLETED"}
             THEN Failure(ErrInvalidStatus)
        ELSE safeParse([t EXCEPT !.status = [type |-> newStatus],
                                 !.createdAt = clock])

\* the cancellation stamps createdAt as well as updatedAt
cancelTraining_StampsCreatedAt(t, reason, clock) ==
    IF t.status.type = "COMPLETED" THEN Failure(ErrCompletedNoCancel)
    ELSE IF t.status.type = "CANCELED" THEN Failure(ErrAlreadyCanceled)
    ELSE safeParse([t EXCEPT !.status = canceled(reason),
                             !.createdAt = clock,
                             !.updatedAt = clock])

\* the factory starts the entity in Open
createTraining_StartsOpen(input, id, clock) ==
    safeParse([id          |-> id,
               title       |-> input.title,
               description |-> input.description,
               date        |-> input.date,
               location    |-> input.location,
               capacity    |-> input.capacity,
               level       |-> input.level,
               price       |-> input.price,
               status      |-> open,
               createdAt   |-> clock,
               updatedAt   |-> clock])

----------------------------------------------------------------------------
(* The operations, as functions of their arguments and of the clock *)

createTraining(input, id, clock) ==
    safeParse([id          |-> id,
               title       |-> input.title,
               description |-> input.description,
               date        |-> input.date,
               location    |-> input.location,
               capacity    |-> input.capacity,
               level       |-> input.level,
               price       |-> input.price,
               status      |-> draft,
               createdAt   |-> clock,
               updatedAt   |-> clock])

\* the rule violations are raised (throw new Error(message)) instead of
\* returned: the call ends with a fault and no Result
cancelTraining_Throws(t, reason, clock) ==
    IF t.status.type = "COMPLETED"
    THEN [success |-> FALSE, thrown |-> ErrCompletedNoCancel]
    ELSE IF t.status.type = "CANCELED"
    THEN [success |-> FALSE, thrown |-> ErrAlreadyCanceled]
    ELSE safeParse([t EXCEPT !.status = canceled(reason),
                             !.updatedAt = clock])

\* a transition is refused unless the clock has moved on since the entity
\* was last stamped
updateTrainingStatus_NeedsLaterClock(t, newStatus, clock) ==
    LET currentStatus == t.status.type
    IN  IF currentStatus = newStatus THEN Success(t)
        ELSE IF currentStatus = "DRAFT" /\ newStatus = "COMPLETED"
             THEN Failure(ErrDraftToCompleted)
        ELSE IF currentStatus = "COMPLETED" THEN Failure(ErrCompletedImmutable)
        ELSE IF currentStatus = "CANCELED" THEN Failure(ErrCanceledImmutable)
        ELSE IF newStatus \notin {"DRAFT", "OPEN", "COMPLETED"}
             THEN Failure(ErrInvalidStatus)
        ELSE IF clock <= t.updatedAt THEN Failure(ErrValidation)
        ELSE safeParse([t EXCEPT !.status = [type |-> newStatus],
                                 !.updatedAt = clock])

\* a target outside the signature falls back to Draft instead of failing
updateTrainingStatus_DefaultsToDraft(t, newStatus, clock) ==
    LET currentStatus == t.status.type
    IN  IF currentStatus = newStatus THEN Success(t)
        ELSE IF currentStatus = "DRAFT" /\ newStatus = "COMPLETED"
             THEN Failure(ErrDraftToCompleted)
        ELSE IF currentStatus = "COMPLETED" THEN Failure(ErrCompletedImmutable)
        ELSE IF currentStatus = "CANCELED" THEN Failure(ErrCanceledImmutable)
        ELSE LET updatedStatus ==
                     CASE newStatus = "OPEN"      -> open
                       [] newStatus = "COMPLETED" -> completed
                       [] OTHER                   -> draft
             IN  safeParse([t EXCEPT !.status = updatedStatus,
                                     !.updatedAt = clock])

updateTrainingStatus(t, newStatus, clock) ==
    LET currentStatus == t.status.type
    IN  IF currentStatus = newStatus THEN Success(t)
        ELSE IF currentStatus = "DRAFT" /\ newStatus = "COMPLETED"
             THEN Failure(ErrDraftToCompleted)
        ELSE IF currentStatus = "COMPLETED" THEN Failure(ErrCompletedImmutable)
        ELSE IF currentStatus = "CANCELED" THEN Failure(ErrCanceledImmutable)
        ELSE IF newStatus \notin {"DRAFT", "OPEN", "COMPLETED"}
             THEN Failure(ErrInvalidStatus)
        ELSE LET updatedStatus ==
                     CASE newStatus = "DRAFT"     -> draft
                       [] newStatus = "OPEN"      -> open
                       [] newStatus = "COMPLETED" -> completed
             IN  safeParse([t EXCEPT !.status = updatedStatus,
                                     !.updatedAt = clock])

cancelTraining(t, reason, clock) ==
    IF t.status.type = "COMPLETED" THEN Failure(ErrCompletedNoCancel)
    ELSE IF t.status.type = "CANCELED" THEN Failure(ErrAlreadyCanceled)
    ELSE safeParse([t EXCEPT !.status = canceled(reason),
                             !.updatedAt = clock])

----------------------------------------------------------------------------
(* The enum-based revision: status is one of the four TrainingStatus       *)
(* values and cancelReason is an optional string, held as the empty        *)
(* sequence when the key is absent and as <<reason>> when it is present.   *)

\* z.object({...}) of the enum-based revision: status is checked against
\* the enum, cancelReason is z.string().optional() and has no constraint
TrainingSchemaEnum(t) ==
    (IF t.id \in UUIDs THEN <<>> ELSE <<ErrInvalidUuid>>)
    \o StringMin(t.title, 1, ErrTitleRequired)
    \o StringMin(t.description, 1, ErrDescriptionRequired)
    \o StringMin(t.location, 1, ErrLocationRequired)
    \o NumberPositive(t.capacity, ErrCapacityPositive)
    \o (IF t.level \in TrainingLevel THEN <<>> ELSE <<ErrInvalidEnum>>)
    \o NumberNonnegative(t.price, ErrPriceNonnegative)
    \o (IF t.status \in StatusTypes THEN <<>> ELSE <<ErrInvalidEnum>>)

safeParseEnum(t) ==
    LET errors == TrainingSchemaEnum(t)
    IN  IF errors # <<>>
        THEN Failure(IF errors[1] # "" THEN errors[1] ELSE ErrValidation)
        ELSE Success(t)

createTrainingEnum(input, id, clock) ==
    safeParseEnum([id           |-> id,
                   title        |-> input.title,
                   description  |-> input.description,
                   date         |-> input.date,
                   location     |-> input.location,
                   capacity     |-> input.capacity,
                   level        |-> input.level,
                   price        |-> input.price,
                   status       |-> "DRAFT",
                   cancelReason |-> <<>>,
                   createdAt    |-> clock,
                   updatedAt    |-> clock])

updateTrainingStatusEnum(t, newStatus, clock) ==
    IF t.status = newStatus THEN Success(t)
    ELSE IF t.status = "DRAFT" /\ newStatus = "COMPLETED"
         THEN Failure(ErrDraftToCompleted)
    ELSE IF t.status = "COMPLETED" THEN Failure(ErrCompletedImmutable)
    ELSE IF t.status = "CANCELED" THEN Failure(ErrCanceledImmutable)
    ELSE safeParseEnum([t EXCEPT !.status = newStatus, !.updatedAt = clock])

\* the check of the length of the reason is missing
cancelTrainingEnum_NoLengthCheck(t, reason, clock) ==
    IF reason = "" THEN Failure(ErrReasonRequired)
    ELSE IF t.status = "COMPLETED" THEN Failure(ErrCompletedNoCancel)
    ELSE IF t.status = "CANCELED" THEN Failure(ErrAlreadyCanceled)
    ELSE safeParseEnum([t EXCEPT !.status = "CANCELED",
                                 !.cancelReason = <<reason>>,
                                 !.updatedAt = clock])

cancelTrainingEnum(t, reason, clock) ==
    IF reason = "" THEN Failure(ErrReasonRequired)
    ELSE IF Len(reason) < MinReasonLength THEN Failure(ErrReasonTooShort)
    ELSE IF t.status = "COMPLETED" THEN Failure(ErrCompletedNoCancel)
    ELSE IF t.status = "CANCELED" THEN Failure(ErrAlreadyCanceled)
    ELSE safeParseEnum([t EXCEPT !.status = "CANCELED",
                                 !.cancelReason = <<reason>>,
                                 !.updatedAt = clock])

----------------------------------------------------------------------------
(* Date-range search *)

\* date-fns startOfDay / endOfDay: the first and the last instant of the day
startOfDay(date) == date - (date % DayLength)

endOfDay(date) == startOfDay(date) + (DayLength - 1)

\* the comparator handed to sort: a.date.getTime() - b.date.getTime()
compareByDate(a, b) == a.date - b.date

\* an insertion that puts the element before the elements that compare equal
\* to it, as a sort that is not stable may
insert_BeforeEqual(sorted, x) ==
    LET p == Cardinality({i \in 1 .. Len(sorted) :
                              compareByDate(sorted[i], x) < 0})
    IN  SubSeq(sorted, 1, p) \o <<x>> \o SubSeq(sorted, p + 1, Len(sorted))

\* Array.prototype.sort is stable: an element goes after every element that
\* does not compare greater than it
insert(sorted, x) ==
    LET p == Cardinality({i \in 1 .. Len(sorted) :
                              compareByDate(sorted[i], x) <= 0})
    IN  SubSeq(sorted, 1, p) \o <<x>> \o SubSeq(sorted, p + 1, Len(sorted))

RECURSIVE sort(_)
sort(array) ==
    IF array = <<>> THEN <<>>
    ELSE insert(sort(SubSeq(array, 1, Len(array) - 1)), array[Len(array)])

\* the upper end of the range is the instant given, not the end of its day
searchTrainings_RawEndDate(array, criteria) ==
    LET startOfSearchDate == startOfDay(criteria.startDate)
        endOfSearchDate   == criteria.endDate
        InRange(t) == t.date >= startOfSearchDate /\ t.date <= endOfSearchDate
    IN  [returned  |-> sort(SelectSeq(array, InRange)),
         trainings |-> array]

\* the filtered entities are returned without being sorted
searchTrainings_NoSort(array, criteria) ==
    LET startOfSearchDate == startOfDay(criteria.startDate)
        endOfSearchDate   == endOfDay(criteria.endDate)
        InRange(t) == t.date >= startOfSearchDate /\ t.date <= endOfSearchDate
    IN  [returned  |-> SelectSeq(array, InRange),
         trainings |-> array]

\* the collection is sorted first and filtered after: sort works in place,
\* so the caller's array is reordered
searchTrainings_SortsInput(array, criteria) ==
    LET startOfSearchDate == startOfDay(criteria.startDate)
        endOfSearchDate   == endOfDay(criteria.endDate)
        InRange(t) == t.date >= startOfSearchDate /\ t.date <= endOfSearchDate
    IN  [returned  |-> SelectSeq(sort(array), InRange),
         trainings |-> sort(array)]

\* the filtered entities are reversed where they should be sorted
searchTrainings_Reverses(array, criteria) ==
    LET startOfSearchDate == startOfDay(criteria.startDate)
        endOfSearchDate   == endOfDay(criteria.endDate)
        InRange(t) == t.date >= startOfSearchDate /\ t.date <= endOfSearchDate
        filtered == SelectSeq(array, InRange)
    IN  [returned  |-> [i \in 1 .. Len(filtered) |->
                           filtered[Len(filtered) + 1 - i]],
         trainings |-> array]

\* canceled entities are left out of the result
searchTrainings_SkipsCanceled(array, criteria) ==
    LET startOfSearchDate == startOfDay(criteria.startDate)
        endOfSearchDate   == endOfDay(criteria.endDate)
        InRange(t) == /\ t.date >= startOfSearchDate
                      /\ t.date <= endOfSearchDate
                      /\ t.status.type # "CANCELED"
    IN  [returned  |-> sort(SelectSeq(array, InRange)),
         trainings |-> array]

\* searchTrainings(trainings, criteria): `returned` is the array it returns,
\* `trainings` the caller's array after the call. filter builds a new array
\* and sort reorders that new array in place, so the caller's is untouched.
searchTrainings(array, criteria) ==
    LET startOfSearchDate == startOfDay(criteria.startDate)
        endOfSearchDate   == endOfDay(criteria.endDate)
        InRange(t) == t.date >= startOfSearchDate /\ t.date <= endOfSearchDate
    IN  [returned  |-> sort(SelectSeq(array, InRange)),
         trainings |-> array]

\* createTrainingId(): an identifier no entity of the collection has
createTrainingId(array) ==
    CHOOSE id \in UUIDs : \A i \in 1 .. Len(array) : array[i].id # id

----------------------------------------------------------------------------
(* The state machine: a caller that creates one entity, then applies the   *)
(* lifecycle operations to the entity it holds, keeping the returned value *)
(* on success and the entity it had on failure, while the clock advances.  *)

Init ==
    /\ now = 0
    /\ training = NoTraining
    /\ call = NoCall
    /\ result = NoResult
    /\ history = <<>>
    /\ trainings = <<>>
    /\ enumTraining = NoTraining
    /\ enumResult = NoResult

\* what the caller holds after a call, and the statuses it has seen so far
Keep(r) ==
    /\ result' = r
    /\ training' = IF isSuccess(r) THEN r.value ELSE training
    /\ history' = IF isSuccess(r)
                     /\ (training = NoTraining
                         \/ r.value.status.type # training.status.type)
                  THEN Append(history, r.value.status.type)
                  ELSE history
    /\ Len(history') <= MaxHistory

Tick ==
    /\ now < MaxClock
    /\ now' = now + 1
    /\ UNCHANGED <<training, call, result, history, trainings,
                    enumTraining, enumResult>>

CreateTraining ==
    /\ training = NoTraining
    /\ \E input \in CreateTrainingInput, id \in UUIDs :
         /\ call' = [op |-> "createTraining", input |-> input, at |-> now]
         /\ Keep(createTraining(input, id, now))
    /\ UNCHANGED <<now, trainings, enumTraining, enumResult>>

UpdateTrainingStatus ==
    /\ training # NoTraining
    /\ \E newStatus \in RuntimeTargets :
         /\ call' = [op |-> "updateTrainingStatus", input |-> training,
                     newStatus |-> newStatus, at |-> now]
         /\ Keep(updateTrainingStatus(training, newStatus, now))
    /\ UNCHANGED <<now, trainings, enumTraining, enumResult>>

CancelTraining ==
    /\ training # NoTraining
    /\ \E reason \in Reasons :
         /\ call' = [op |-> "cancelTraining", input |-> training,
                     reason |-> reason, at |-> now]
         /\ Keep(cancelTraining(training, reason, now))
    /\ UNCHANGED <<now, trainings, enumTraining, enumResult>>

Next ==
    \/ Tick
    \/ CreateTraining
    \/ UpdateTrainingStatus
    \/ CancelTraining

Spec == Init /\ [][Next]_vars

----------------------------------------------------------------------------
(* The search: a caller that fills a collection with created entities,     *)
(* takes entities of it through the lifecycle, and searches it.            *)

\* trainingData.forEach: create an entity and push it when that succeeded
AddTraining ==
    /\ Len(trainings) < MaxTrainings
    /\ \E data \in TrainingData :
         LET r == createTraining(data, createTrainingId(trainings), now)
         IN  /\ call' = [op |-> "createTraining", input |-> data, at |-> now]
             /\ result' = r
             /\ trainings' = IF isSuccess(r) THEN Append(trainings, r.value)
                              ELSE trainings
    /\ UNCHANGED <<now, training, history, enumTraining, enumResult>>

\* an entity of the collection is replaced by what updateTrainingStatus
\* returned for it
UpdateStatusInCollection ==
    /\ \E i \in 1 .. Len(trainings), newStatus \in TypedTargets :
         LET r == updateTrainingStatus(trainings[i], newStatus, now)
         IN  /\ call' = [op |-> "updateTrainingStatus",
                         input |-> trainings[i],
                         newStatus |-> newStatus, at |-> now]
             /\ result' = r
             /\ trainings' = IF isSuccess(r)
                              THEN [trainings EXCEPT ![i] = r.value]
                              ELSE trainings
    /\ UNCHANGED <<now, training, history, enumTraining, enumResult>>

\* an entity of the collection is replaced by what cancelTraining returned
CancelInCollection ==
    /\ \E i \in 1 .. Len(trainings), reason \in {"abcd", "abcde"} :
         LET r == cancelTraining(trainings[i], reason, now)
         IN  /\ call' = [op |-> "cancelTraining", input |-> trainings[i],
                         reason |-> reason, at |-> now]
             /\ result' = r
             /\ trainings' = IF isSuccess(r)
                              THEN [trainings EXCEPT ![i] = r.value]
                              ELSE trainings
    /\ UNCHANGED <<now, training, history, enumTraining, enumResult>>

\* const result = searchTrainings(trainings, searchCriteria)
SearchTrainings ==
    /\ \E criteria \in SearchTrainingCriteria :
         LET r == searchTrainings(trainings, criteria)
         IN  /\ call' = [op |-> "searchTrainings", trainings |-> trainings,
                         criteria |-> criteria]
             /\ result' = r.returned
             /\ trainings' = r.trainings
    /\ UNCHANGED <<now, training, history, enumTraining, enumResult>>

SearchNext ==
    \/ AddTraining
    \/ UpdateStatusInCollection
    \/ CancelInCollection
    \/ SearchTrainings

SearchSpec == Init /\ [][SearchNext]_vars

----------------------------------------------------------------------------
(* The two revisions side by side: a caller that creates one entity with   *)
(* each revision from the same input and then makes every call on both,    *)
(* keeping for each revision what its operation returned.                  *)

\* the data every test of the lifecycle creates its entity from
LifecycleData ==
    [title |-> "Agile", description |-> "basics", date |-> 20250601,
     location |-> "Tokyo", capacity |-> 20 * Scale, level |-> "BEGINNER",
     price |-> 50000 * Scale]

\* what the caller holds of the enum-based revision after a call
KeepEnum(r) ==
    /\ enumResult' = r
    /\ enumTraining' = IF isSuccess(r) THEN r.value ELSE enumTraining

CreateBoth ==
    /\ training = NoTraining
    /\ enumTraining = NoTraining
    /\ \E id \in UUIDs :
         /\ call' = [op |-> "createTraining", input |-> LifecycleData,
                     at |-> now]
         /\ Keep(createTraining(LifecycleData, id, now))
         /\ KeepEnum(createTrainingEnum(LifecycleData, id, now))
    /\ UNCHANGED <<now, trainings>>

\* the target is any value of the enum TrainingStatus
UpdateBoth ==
    /\ training # NoTraining
    /\ enumTraining # NoTraining
    /\ \E newStatus \in StatusTypes :
         /\ call' = [op |-> "updateTrainingStatus", input |-> training,
                     enumInput |-> enumTraining, newStatus |-> newStatus,
                     at |-> now]
         /\ Keep(updateTrainingStatus(training, newStatus, now))
         /\ KeepEnum(updateTrainingStatusEnum(enumTraining, newStatus, now))
    /\ UNCHANGED <<now, trainings>>

CancelBoth ==
    /\ training # NoTraining
    /\ enumTraining # NoTraining
    /\ \E reason \in Reasons :
         /\ call' = [op |-> "cancelTraining", input |-> training,
                     enumInput |-> enumTraining, reason |-> reason,
                     at |-> now]
         /\ Keep(cancelTraining(training, reason, now))
         /\ KeepEnum(cancelTrainingEnum(enumTraining, reason, now))
    /\ UNCHANGED <<now, trainings>>

RevisionsNext ==
    \/ Tick
    \/ CreateBoth
    \/ UpdateBoth
    \/ CancelBoth

RevisionsSpec == Init /\ [][RevisionsNext]_vars

\* the target is one the signature of the tagged-union revision admits
UpdateBothTyped ==
    /\ training # NoTraining
    /\ enumTraining # NoTraining
    /\ \E newStatus \in TypedTargets :
         /\ call' = [op |-> "updateTrainingStatus", input |-> training,
                     enumInput |-> enumTraining, newStatus |-> newStatus,
                     at |-> now]
         /\ Keep(updateTrainingStatus(training, newStatus, now))
         /\ KeepEnum(updateTrainingStatusEnum(enumTraining, newStatus, now))
    /\ UNCHANGED <<now, trainings>>

TypedRevisionsNext ==
    \/ Tick
    \/ CreateBoth
    \/ UpdateBothTyped
    \/ CancelBoth

TypedRevisionsSpec == Init /\ [][TypedRevisionsNext]_vars

----------------------------------------------------------------------------
(* Properties of the lifecycle. `call` and `result` describe the last      *)
(* call: the entity and argument it was given and what it returned.        *)

\* the last call was updateTrainingStatus on an entity of status type s
UpdateFrom(s) ==
    call.op = "updateTrainingStatus" /\ call.input.status.type = s

\* the last call was cancelTraining on an entity of status type s
CancelFrom(s) ==
    call.op = "cancelTraining" /\ call.input.status.type = s

\* the last call returned a failure carrying exactly this message, no entity
FailedWith(message) == result = Failure(message)

LegalTransitions ==
    {<<"DRAFT", "OPEN">>, <<"OPEN", "COMPLETED">>, <<"OPEN", "DRAFT">>}

\* C1: for a target t in {Draft, Open, Completed} different from the status
\* s of the entity, updateTrainingStatus succeeds exactly for (Draft, Open),
\* (Open, Completed) and (Open, Draft), and on success the status is t.
C1_LegalTransitions ==
    (/\ call.op = "updateTrainingStatus"
     /\ call.newStatus \in TypedTargets
     /\ call.newStatus # call.input.status.type)
    => /\ isSuccess(result)
            <=> <<call.input.status.type, call.newStatus>> \in LegalTransitions
       /\ isSuccess(result) => result.value.status = [type |-> call.newStatus]

C1_Witness ==
    /\ UpdateFrom("OPEN")
    /\ call.newStatus = "DRAFT"
    /\ isSuccess(result)
    /\ training.status = draft

\* C2: updateTrainingStatus(E, E.status.type) succeeds and returns E itself,
\* equal in every field, updatedAt included, whatever the clock reads.
C2_NoOpReturnsSameEntity ==
    (/\ call.op = "updateTrainingStatus"
     /\ call.newStatus = call.input.status.type)
    => /\ result = Success(call.input)
       /\ training = call.input

C2_Witness ==
    /\ UpdateFrom("OPEN")
    /\ call.newStatus = "OPEN"
    /\ call.at > call.input.updatedAt
    /\ result = Success(call.input)

\* C3 as stated: on a Completed entity updateTrainingStatus fails for every
\* target in {Draft, Open, Completed}.
C3_CompletedFailsForAllTargets ==
    (UpdateFrom("COMPLETED") /\ call.newStatus \in TypedTargets)
    => isError(result)

\* C3 amended: on a Completed entity updateTrainingStatus fails for the
\* targets Draft and Open; for the target Completed it succeeds as the no-op
\* that returns the entity unchanged. In every case the entity the caller
\* holds afterwards is the Completed entity it passed in.
C3_CompletedImmutable ==
    (UpdateFrom("COMPLETED") /\ call.newStatus \in TypedTargets)
    => /\ isError(result) <=> call.newStatus \in {"DRAFT", "OPEN"}
       /\ isSuccess(result) => result.value = call.input
       /\ training = call.input

C3_Witness ==
    /\ UpdateFrom("COMPLETED")
    /\ call.newStatus = "DRAFT"
    /\ isError(result)
    /\ training.status = completed

\* C4: updateTrainingStatus on a Completed entity with target Draft or Open
\* fails with the message "cannot change from completed" and returns no
\* entity.
C4_CompletedMessage ==
    (UpdateFrom("COMPLETED") /\ call.newStatus \in {"DRAFT", "OPEN"})
    => /\ FailedWith(ErrCompletedImmutable)
       /\ "value" \notin DOMAIN result

C4_Witness ==
    /\ UpdateFrom("COMPLETED")
    /\ call.newStatus = "OPEN"
    /\ FailedWith(ErrCompletedImmutable)

\* C5: cancelTraining on a Completed entity with a reason of at least 5
\* characters fails with "a completed training cannot be canceled", and a
\* Completed entity never becomes Canceled: no step takes the held entity
\* from Completed to Canceled.
C5_CompletedNeverCanceled ==
    /\ [](CancelFrom("COMPLETED") /\ Len(call.reason) >= MinReasonLength
            => FailedWith(ErrCompletedNoCancel))
    /\ [][(training # NoTraining /\ training.status.type = "COMPLETED")
            => training'.status.type # "CANCELED"]_vars

C5_Witness ==
    /\ CancelFrom("COMPLETED")
    /\ Len(call.reason) >= MinReasonLength
    /\ FailedWith(ErrCompletedNoCancel)
    /\ training.status = completed

\* C6: Canceled is absorbing. On a Canceled entity updateTrainingStatus
\* fails for every target in {Draft, Open, Completed}, cancelTraining fails
\* for every reason, with "the training is already canceled" when the reason
\* is valid, and every step leaves a Canceled entity Canceled with the
\* reason it was first canceled with.
C6_CanceledAbsorbing ==
    /\ [](UpdateFrom("CANCELED") /\ call.newStatus \in TypedTargets
            => isError(result))
    /\ [](CancelFrom("CANCELED")
            => /\ isError(result)
               /\ Len(call.reason) >= MinReasonLength
                    => FailedWith(ErrAlreadyCanceled))
    /\ [][(training # NoTraining /\ training.status.type = "CANCELED")
            => training'.status = training.status]_vars

C6_Witness ==
    /\ CancelFrom("CANCELED")
    /\ Len(call.reason) >= MinReasonLength
    /\ call.reason # call.input.status.reason
    /\ FailedWith(ErrAlreadyCanceled)
    /\ training.status = call.input.status

\* C7: updateTrainingStatus from Draft to Completed fails with "cannot update
\* directly from draft to completed", while Draft to Open and then Open to
\* Completed succeed at both steps.
C7_DraftToCompletedOnlyViaOpen ==
    /\ (UpdateFrom("DRAFT") /\ call.newStatus = "COMPLETED")
         => /\ FailedWith(ErrDraftToCompleted)
            /\ training.status = draft
    /\ (UpdateFrom("DRAFT") /\ call.newStatus = "OPEN")
         => /\ isSuccess(result)
            /\ training.status = open
    /\ (UpdateFrom("OPEN") /\ call.newStatus = "COMPLETED")
         => /\ isSuccess(result)
            /\ training.status = completed

C7_Witness ==
    /\ history = <<"DRAFT", "OPEN", "COMPLETED">>
    /\ UpdateFrom("OPEN")
    /\ call.newStatus = "COMPLETED"
    /\ isSuccess(result)
    /\ training.status = completed

\* C8: cancelTraining succeeds if and only if the status of the entity is
\* Draft or Open and the reason has at least 5 characters; on success the
\* status returned is Canceled with exactly the reason passed in.
C8_CancelSucceedsIff ==
    call.op = "cancelTraining"
    => /\ isSuccess(result)
            <=> /\ call.input.status.type \in {"DRAFT", "OPEN"}
                /\ Len(call.reason) >= MinReasonLength
       /\ isSuccess(result)
            => result.value.status = canceled(call.reason)

C8_Witness ==
    /\ CancelFrom("OPEN")
    /\ Len(call.reason) = MinReasonLength
    /\ isSuccess(result)
    /\ training.status = canceled(call.reason)

\* C9: cancelTraining checks the reason before the status: in any status an
\* empty reason is rejected with "cancel reason is required" and a reason of
\* 1 to 4 characters with "cancel reason must be 5 characters or more"; the
\* status messages are returned only when the reason is valid.
C9_ReasonCheckedBeforeStatus ==
    call.op = "cancelTraining"
    => /\ Len(call.reason) = 0 => FailedWith(ErrReasonRequired)
       /\ Len(call.reason) \in 1 .. (MinReasonLength - 1)
            => FailedWith(ErrReasonTooShort)
       /\ (FailedWith(ErrCompletedNoCancel) \/ FailedWith(ErrAlreadyCanceled))
            => Len(call.reason) >= MinReasonLength

\* C10: on a Draft or Open entity cancelTraining with an empty reason fails
\* with "cancel reason is required" and with a reason of 1 to 4 characters
\* fails with "cancel reason must be 5 characters or more"; no entity is
\* returned and the entity stays in its status.
C10_ReasonRejectedOnDraftOrOpen ==
    (CancelFrom("DRAFT") \/ CancelFrom("OPEN"))
    => /\ Len(call.reason) = 0
            => FailedWith(ErrReasonRequired) /\ training = call.input
       /\ Len(call.reason) \in 1 .. (MinReasonLength - 1)
            => FailedWith(ErrReasonTooShort) /\ training = call.input

C10_Witness ==
    /\ CancelFrom("DRAFT")
    /\ call.reason = ""
    /\ FailedWith(ErrReasonRequired)
    /\ training.status = draft

----------------------------------------------------------------------------
(* Properties of the history and of the timestamps *)

\* the last call was a lifecycle operation
LifecycleCall == call.op \in {"updateTrainingStatus", "cancelTraining"}

\* the last call was a lifecycle operation that succeeded and changed the
\* status
StateChanging ==
    /\ LifecycleCall
    /\ isSuccess(result)
    /\ result.value.status # call.input.status

\* the status changes the two operations can make
StatusChanges ==
    LegalTransitions \cup {<<"DRAFT", "CANCELED">>, <<"OPEN", "CANCELED">>}

\* C11 as stated: along the successful calls on one entity the status never
\* returns to a status it has left.
C11_NeverReturnsToLeftStatus ==
    \A i, j \in 1 .. Len(history) : i < j => history[i] # history[j]

\* C11 amended: every status change is one of Draft to Open, Open to Draft,
\* Open to Completed, Draft to Canceled and Open to Canceled. Hence Completed
\* and Canceled are never left, and the only statuses an entity returns to
\* are Draft and Open, which may alternate.
C11_OnlyDraftOpenCycle ==
    /\ \A i \in 1 .. (Len(history) - 1) :
         <<history[i], history[i + 1]>> \in StatusChanges
    /\ \A i, j \in 1 .. Len(history) :
         (i < j /\ history[i] = history[j]) => history[i] \in {"DRAFT", "OPEN"}

C11_Witness ==
    /\ history = <<"DRAFT", "OPEN", "DRAFT">>
    /\ UpdateFrom("OPEN")
    /\ isSuccess(result)
    /\ training.status = draft

\* C12 as stated: every successful state-changing operation returns an
\* updatedAt strictly greater than the updatedAt of the input entity.
C12_UpdatedAtStrictlyGreater ==
    StateChanging => result.value.updatedAt > call.input.updatedAt

\* C12 amended: every successful state-changing operation returns an
\* updatedAt equal to the clock reading of the call; with a clock that never
\* goes backwards it is never less than the updatedAt of the input entity,
\* and it is strictly greater exactly when the clock has advanced since the
\* input entity was stamped.
C12_UpdatedAtIsClockReading ==
    StateChanging
    => /\ result.value.updatedAt = call.at
       /\ result.value.updatedAt >= call.input.updatedAt
       /\ result.value.updatedAt > call.input.updatedAt
            <=> call.at > call.input.updatedAt

C12_Witness ==
    /\ StateChanging
    /\ call.op = "updateTrainingStatus"
    /\ call.at > call.input.updatedAt
    /\ training.updatedAt > call.input.updatedAt

\* C13: in every state reachable from createTraining by the lifecycle
\* operations, with a clock that never goes backwards, updatedAt is greater
\* than or equal to createdAt.
C13_UpdatedAtNotBeforeCreatedAt ==
    training # NoTraining => training.updatedAt >= training.createdAt

C13_Witness ==
    /\ StateChanging
    /\ training.updatedAt > training.createdAt

\* C14: updatedAt changes only when the state changes. When a lifecycle
\* operation returns an entity whose updatedAt differs from the input's, the
\* returned status differs from the input status; after a no-op or a failed
\* call the entity held has the updatedAt it had.
C14_UpdatedAtChangesOnlyWithStatus ==
    LifecycleCall
    => /\ (isSuccess(result)
             /\ result.value.updatedAt # call.input.updatedAt)
            => result.value.status # call.input.status
       /\ training.updatedAt # call.input.updatedAt
            => isSuccess(result) /\ training.status # call.input.status

C14_Witness ==
    /\ LifecycleCall
    /\ isSuccess(result)
    /\ result.value.updatedAt # call.input.updatedAt
    /\ result.value.status # call.input.status

\* C15: id and createdAt are fixed at creation: no step changes the id or
\* the createdAt of the entity the caller holds, and a successful lifecycle
\* call returns the id and createdAt it was given.
C15_IdAndCreatedAtFixed ==
    /\ [](LifecycleCall /\ isSuccess(result)
            => /\ result.value.id = call.input.id
               /\ result.value.createdAt = call.input.createdAt)
    /\ [][training # NoTraining
            => /\ training'.id = training.id
               /\ training'.createdAt = training.createdAt]_vars

C15_Witness ==
    /\ CancelFrom("OPEN")
    /\ isSuccess(result)
    /\ call.at > call.input.createdAt
    /\ training.createdAt = call.input.createdAt
    /\ training.id = call.input.id

----------------------------------------------------------------------------
(* Properties of the factory *)

\* C16: on success createTraining returns an entity with status Draft, with
\* createdAt = updatedAt = the clock reading at the call, and with title,
\* description, date, location, capacity, level and price equal to the
\* input values.
C16_CreatedEntity ==
    (call.op = "createTraining" /\ isSuccess(result))
    => /\ result.value.status = draft
       /\ result.value.createdAt = call.at
       /\ result.value.updatedAt = call.at
       /\ result.value.title = call.input.title
       /\ result.value.description = call.input.description
       /\ result.value.date = call.input.date
       /\ result.value.location = call.input.location
       /\ result.value.capacity = call.input.capacity
       /\ result.value.level = call.input.level
       /\ result.value.price = call.input.price

C16_Witness ==
    /\ call.op = "createTraining"
    /\ isSuccess(result)
    /\ call.at > 0
    /\ training = result.value
    /\ training.status = draft

\* a number is a whole number when it is a multiple of the unit
IsInteger(n) == n % Scale = 0

\* the messages of the rules an input violates, in the order title
\* non-empty, description non-empty, location non-empty, capacity at least
\* 1, price at least 0
ViolatedRules(input) ==
    (IF input.title = "" THEN <<ErrTitleRequired>> ELSE <<>>)
    \o (IF input.description = "" THEN <<ErrDescriptionRequired>> ELSE <<>>)
    \o (IF input.location = "" THEN <<ErrLocationRequired>> ELSE <<>>)
    \o (IF input.capacity < Scale THEN <<ErrCapacityPositive>> ELSE <<>>)
    \o (IF input.price < 0 THEN <<ErrPriceNonnegative>> ELSE <<>>)

\* C17: createTraining reports the first violated rule in the order title
\* non-empty, description non-empty, location non-empty, capacity at least
\* 1, price at least 0.
C17_FirstViolatedRuleReported ==
    (call.op = "createTraining" /\ ViolatedRules(call.input) # <<>>)
    => FailedWith(Head(ViolatedRules(call.input)))

\* the text fields of the input are non-empty
TextsGiven(input) ==
    input.title # "" /\ input.description # "" /\ input.location # ""

\* C18: createTraining succeeds if and only if title, description and
\* location are non-empty, capacity is at least 1 and price is at least 0;
\* capacity 0 and -1 fail with "capacity must be 1 or more", capacity 1
\* succeeds, price -1 fails with "price must be 0 or more", price 0 succeeds.
C18_CreateSucceedsIff ==
    call.op = "createTraining"
    => /\ isSuccess(result) <=> ViolatedRules(call.input) = <<>>
       /\ (TextsGiven(call.input) /\ call.input.capacity \in {0, -Scale})
            => FailedWith(ErrCapacityPositive)
       /\ (TextsGiven(call.input) /\ call.input.capacity = Scale
             /\ call.input.price >= 0)
            => isSuccess(result)
       /\ (TextsGiven(call.input) /\ call.input.capacity >= Scale
             /\ call.input.price = -Scale)
            => FailedWith(ErrPriceNonnegative)
       /\ (TextsGiven(call.input) /\ call.input.capacity >= Scale
             /\ call.input.price = 0)
            => isSuccess(result)

\* C19: every entity createTraining returns has a capacity that is a whole
\* number and at least 1; an input whose capacity is not a whole number is
\* rejected.
C19_CapacityIsIntegerAtLeastOne ==
    call.op = "createTraining"
    => /\ isSuccess(result)
            => /\ IsInteger(result.value.capacity)
               /\ result.value.capacity >= Scale
       /\ ~IsInteger(call.input.capacity) => isError(result)

\* C20: every entity returned by createTraining, and every entity reached
\* from it by successful lifecycle calls, has title, description and
\* location non-empty, capacity at least 1, price at least 0 and a status
\* among Draft, Open, Completed and Canceled.
C20_DataModelInvariants ==
    training # NoTraining
    => /\ training.title # ""
       /\ training.description # ""
       /\ training.location # ""
       /\ training.capacity >= Scale
       /\ training.price >= 0
       /\ training.status.type \in StatusTypes

----------------------------------------------------------------------------
(* Properties of failure, of the shape of results and of reaching          *)
(* Completed                                                               *)

\* C21: a failed updateTrainingStatus or cancelTraining returns only an
\* error message and no entity, and the entity it was given is left exactly
\* as it was: the caller still holds the value it passed, field for field,
\* and the step of the failed call changes nothing but the record of the
\* call, so the next call sees what it would have seen without it.
C21_FailureLeavesEntity ==
    /\ [](LifecycleCall /\ isError(result)
            => /\ DOMAIN result = {"success", "error"}
               /\ training = call.input)
    /\ [][call' # call /\ LifecycleCall' /\ isError(result')
            => /\ call'.input = training
               /\ training' = training
               /\ history' = history
               /\ now' = now]_vars

C21_Witness ==
    /\ CancelFrom("OPEN")
    /\ call.reason = "abcd"
    /\ call.at > call.input.updatedAt
    /\ FailedWith(ErrReasonTooShort)
    /\ training = call.input
    /\ training.status = open

\* the last call was one of the three operations that return a Result
ResultCall ==
    call.op \in {"createTraining", "updateTrainingStatus", "cancelTraining"}

\* C28: every call of createTraining, updateTrainingStatus and
\* cancelTraining, for every status of the entity and every argument (the
\* targets outside the signature included), ends with exactly one of a
\* success carrying an entity and nothing else, or a failure carrying a
\* non-empty message and nothing else; no call ends with a fault.
C28_ExactlyOneResult ==
    ResultCall
    => \/ /\ DOMAIN result = {"success", "value"}
          /\ result.success = TRUE
          /\ TrainingSchema(result.value) = <<>>
       \/ /\ DOMAIN result = {"success", "error"}
          /\ result.success = FALSE
          /\ Len(result.error) > 0

C28_Witness ==
    /\ UpdateFrom("OPEN")
    /\ call.newStatus = "ARCHIVED"
    /\ DOMAIN result = {"success", "error"}
    /\ result.error = ErrInvalidStatus
    /\ training.status = open

\* C30: Completed is entered only from Open. The step that takes the entity
\* from a status other than Completed to Completed is a successful
\* updateTrainingStatus with target Completed on an entity whose status is
\* Open, and wherever Completed appears among the statuses the entity has
\* had, the status just before it is Open.
C30_CompletedOnlyFromOpen ==
    /\ [](\A i \in 1 .. Len(history) :
            history[i] = "COMPLETED" => i > 1 /\ history[i - 1] = "OPEN")
    /\ [][(/\ training' # NoTraining
           /\ training'.status.type = "COMPLETED"
           /\ (training = NoTraining \/ training.status.type # "COMPLETED"))
          => /\ training # NoTraining
             /\ training.status.type = "OPEN"
             /\ call'.op = "updateTrainingStatus"
             /\ call'.input = training
             /\ call'.newStatus = "COMPLETED"
             /\ isSuccess(result')]_vars

C30_Witness ==
    /\ Len(history) >= 3
    /\ history[Len(history)] = "COMPLETED"
    /\ history[Len(history) - 1] = "OPEN"
    /\ call.at > call.input.updatedAt
    /\ UpdateFrom("OPEN")
    /\ call.newStatus = "COMPLETED"
    /\ training.status = completed

----------------------------------------------------------------------------
(* Properties of the search. After a search `call` holds the collection    *)
(* and the criteria it was given, `result` the sequence it returned and    *)
(* `trainings` the caller's collection as the call left it.                *)

SearchCall == call.op = "searchTrainings"

\* the calendar day an instant falls on
dayOf(date) == date \div DayLength

\* the date lies between the start of the startDate day and the end of the
\* endDate day, both included
InSearchedDays(t, criteria) ==
    /\ dayOf(criteria.startDate) <= dayOf(t.date)
    /\ dayOf(t.date) <= dayOf(criteria.endDate)

\* how many times x occurs in seq
Count(x, seq) == Cardinality({i \in 1 .. Len(seq) : seq[i] = x})

C23_StartAfterEndGivesEmpty ==
    SearchCall /\ call.criteria.startDate > call.criteria.endDate
    => result = <<>>

\* C24: the output of searchTrainings is sorted ascending by date: of two
\* adjacent entities of the result the earlier one's date is less than or
\* equal to the later one's, whatever the order of the input collection.
C24_SortedAscending ==
    SearchCall
    => \A i \in 1 .. Len(result) - 1 : result[i].date <= result[i + 1].date

C24_Witness ==
    /\ SearchCall
    /\ Len(call.trainings) = 2
    /\ call.trainings[1].date > call.trainings[2].date
    /\ result = <<call.trainings[2], call.trainings[1]>>

\* the position of an entity in a collection of entities with distinct ids
IndexIn(seq, t) == CHOOSE k \in 1 .. Len(seq) : seq[k] = t

\* C25: searchTrainings is stable: two matching entities with equal dates
\* appear in the result in the relative order they have in the input.
C25_Stable ==
    SearchCall
    => \A i, j \in 1 .. Len(result) :
         i < j /\ result[i].date = result[j].date
         => IndexIn(call.trainings, result[i])
                < IndexIn(call.trainings, result[j])

C25_Witness ==
    /\ SearchCall
    /\ Len(call.trainings) = 2
    /\ call.trainings[1].date = call.trainings[2].date
    /\ call.trainings[1] # call.trainings[2]
    /\ result = call.trainings

\* C26: searchTrainings is read-only: after the call the caller's collection
\* has the same entities in the same order as before, each unchanged, also
\* when the sequence returned is ordered differently.
C26_ReadOnly ==
    SearchCall => trainings = call.trainings

C26_Witness ==
    /\ SearchCall
    /\ Len(result) = 2
    /\ result[1] = call.trainings[2]
    /\ result[2] = call.trainings[1]
    /\ trainings = call.trainings
    /\ trainings[1].status.type = "CANCELED"

\* the entity with its lifecycle state taken away
WithoutLifecycle(t) == [t EXCEPT !.status = draft, !.updatedAt = t.createdAt]

WithoutLifecycleAll(seq) == [i \in 1 .. Len(seq) |-> WithoutLifecycle(seq[i])]

\* C27: the result of searchTrainings does not depend on lifecycle state.
\* The collection searched and the same collection with every status put
\* back to Draft and every updatedAt to createdAt give results with the
\* same entities at the same positions, and an entity whose date is in the
\* range is returned whatever its status is.
C27_IndependentOfLifecycle ==
    SearchCall
    => /\ WithoutLifecycleAll(result)
            = searchTrainings(WithoutLifecycleAll(call.trainings),
                              call.criteria).returned
       /\ \A j \in 1 .. Len(call.trainings) :
             InSearchedDays(call.trainings[j], call.criteria)
             => \E i \in 1 .. Len(result) : result[i] = call.trainings[j]

C27_Witness ==
    /\ SearchCall
    /\ Len(result) = 2
    /\ {result[1].status.type, result[2].status.type}
           = {"COMPLETED", "CANCELED"}
    /\ result[1].date < result[2].date

----------------------------------------------------------------------------
(* Properties of the Canceled status in the two revisions *)

\* the tagged-union revision: a Canceled status carries a reason of at
\* least 5 characters, and updateTrainingStatus returns a Canceled entity
\* only when it was given one
CanceledOnlyViaCancelTagged ==
    /\ (training # NoTraining /\ training.status.type = "CANCELED")
         => Len(training.status.reason) >= MinReasonLength
    /\ (/\ call.op = "updateTrainingStatus"
        /\ isSuccess(result)
        /\ result.value.status.type = "CANCELED")
         => call.input.status.type = "CANCELED"

\* the same of the enum-based revision, where the reason is cancelReason
CanceledOnlyViaCancelEnum ==
    /\ (enumTraining # NoTraining /\ enumTraining.status = "CANCELED")
         => /\ enumTraining.cancelReason # <<>>
            /\ Len(enumTraining.cancelReason[1]) >= MinReasonLength
    /\ (/\ call.op = "updateTrainingStatus"
        /\ isSuccess(enumResult)
        /\ enumResult.value.status = "CANCELED")
         => call.enumInput.status = "CANCELED"

\* C29: in every reachable state an entity whose status is Canceled carries
\* a cancellation reason of at least 5 characters, and Canceled is entered
\* only through a successful cancelTraining: updateTrainingStatus never
\* returns an entity whose status is Canceled unless the input was already
\* Canceled. This is stated of the tagged-union revision and of the
\* enum-based revision, whose updateTrainingStatus takes any TrainingStatus
\* value as target.
C29_CanceledOnlyViaCancel ==
    CanceledOnlyViaCancelTagged /\ CanceledOnlyViaCancelEnum

----------------------------------------------------------------------------
(* What a successful call changes, and what its outcome depends on *)

\* C31: a successful state-changing updateTrainingStatus or cancelTraining
\* changes only status and updatedAt: the entity returned has the id,
\* title, description, date, location, capacity, level, price and createdAt
\* of the entity passed in, and its updatedAt is the clock reading of the
\* call.
C31_OnlyStatusAndUpdatedAt ==
    StateChanging
    => /\ result.value = [call.input EXCEPT !.status = result.value.status,
                                            !.updatedAt = call.at]
       /\ \A f \in {"id", "title", "description", "date", "location",
                     "capacity", "level", "price", "createdAt"} :
             result.value[f] = call.input[f]
       /\ result.value.updatedAt = call.at

C31_Witness ==
    /\ CancelFrom("OPEN")
    /\ StateChanging
    /\ call.input.createdAt < call.input.updatedAt
    /\ call.input.updatedAt < call.at
    /\ result.value.createdAt = call.input.createdAt
    /\ result.value.updatedAt = call.at

\* one fixed entity of each status type
ReferenceTraining(type) ==
    [id          |-> "uuid-1",
     title       |-> "Agile",
     description |-> "basics",
     date        |-> 20250601,
     location    |-> "Tokyo",
     capacity    |-> 20 * Scale,
     level       |-> "BEGINNER",
     price       |-> 50000 * Scale,
     status      |-> IF type = "CANCELED" THEN canceled("abcde")
                     ELSE [type |-> type],
     createdAt   |-> 0,
     updatedAt   |-> 0]

\* what a call came to: success and the status type reached, or failure and
\* the message
Outcome(r) ==
    IF isSuccess(r) THEN [success |-> TRUE, status |-> r.value.status.type]
    ELSE [success |-> FALSE, error |-> r.error]

\* C32: the outcome of updateTrainingStatus and cancelTraining is determined
\* by the status type of the entity and the argument alone. Whatever the
\* other fields of the entity and whatever the clock reads, the call
\* succeeds or fails, with the same message or the same resulting status
\* type, as the same call on the fixed entity of that status type at clock
\* 0 does, and the status a successful cancelTraining gives is Canceled
\* with the reason passed.
C32_OutcomeFromStatusAndArgument ==
    /\ call.op = "updateTrainingStatus"
         => Outcome(result)
              = Outcome(updateTrainingStatus(
                            ReferenceTraining(call.input.status.type),
                            call.newStatus, 0))
    /\ call.op = "cancelTraining"
         => /\ Outcome(result)
                 = Outcome(cancelTraining(
                               ReferenceTraining(call.input.status.type),
                               call.reason, 0))
            /\ isSuccess(result)
                 => result.value.status = canceled(call.reason)

C32_Witness ==
    /\ UpdateFrom("OPEN")
    /\ call.newStatus = "COMPLETED"
    /\ call.input.id # "uuid-1"
    /\ call.input.capacity = Scale
    /\ call.input.price = 0
    /\ call.input.updatedAt = call.at
    /\ call.at > 0
    /\ isSuccess(result)
    /\ result.value.status = completed

----------------------------------------------------------------------------
(* The two revisions compared *)

\* C33: the enum-based revision and the tagged-union revision are
\* outcome-equivalent. Run side by side on the same calls of
\* updateTrainingStatus with targets in {Draft, Open, Completed} and of
\* cancelTraining, the two succeed at the same calls and fail at the same
\* calls, and after every call the entities held have the same status type
\* and the same cancellation reason, or none in both.
C33_RevisionsEquivalent ==
    /\ training = NoTraining <=> enumTraining = NoTraining
    /\ ResultCall => isSuccess(result) = isSuccess(enumResult)
    /\ training # NoTraining
         => /\ enumTraining.status = training.status.type
            /\ enumTraining.cancelReason
                 = IF training.status.type = "CANCELED"
                   THEN <<training.status.reason>> ELSE <<>>

C33_Witness ==
    /\ call.op = "cancelTraining"
    /\ call.input.status.type = "COMPLETED"
    /\ call.enumInput.status = "COMPLETED"
    /\ call.reason = ""
    /\ result = Failure(ErrCompletedNoCancel)
    /\ enumResult = Failure(ErrReasonRequired)

----------------------------------------------------------------------------
(* Searching a result again, and targets outside the signature *)

\* C34: searchTrainings is idempotent for fixed criteria: applied to the
\* sequence it returned, with the same startDate and endDate, it returns a
\* sequence equal to that one, element by element.
C34_Idempotent ==
    SearchCall
    => LET again == searchTrainings(result, call.criteria).returned
       IN  /\ Len(again) = Len(result)
           /\ \A i \in 1 .. Len(result) : again[i] = result[i]

C34_Witness ==
    /\ SearchCall
    /\ Len(call.trainings) = 2
    /\ call.trainings[1].date > call.trainings[2].date
    /\ Len(result) = 2
    /\ result # call.trainings
    /\ searchTrainings(result, call.criteria).returned = result

\* C35 as stated: updateTrainingStatus never returns success for a target
\* outside {DRAFT, OPEN, COMPLETED}: for every status of the entity a call
\* with any other target returns a failure and no entity.
C35_OtherTargetAlwaysFails ==
    (call.op = "updateTrainingStatus" /\ call.newStatus \notin TypedTargets)
    => /\ isError(result)
       /\ DOMAIN result = {"success", "error"}

\* C35 amended: for a target outside {DRAFT, OPEN, COMPLETED}
\* updateTrainingStatus succeeds only when the target is the status type
\* the entity already has (a Canceled entity given 'CANCELED'), and then it
\* returns the entity unchanged; in every other case it returns a failure
\* and no entity. No call with such a target changes the entity held.
C35_OtherTargetNeverChanges ==
    (call.op = "updateTrainingStatus" /\ call.newStatus \notin TypedTargets)
    => /\ isSuccess(result) <=> call.newStatus = call.input.status.type
       /\ isSuccess(result) => result = Success(call.input)
       /\ isError(result) => DOMAIN result = {"success", "error"}
       /\ isError(result) /\ call.input.status.type \in {"DRAFT", "OPEN"}
            => FailedWith(ErrInvalidStatus)
       /\ training = call.input

C35_Witness ==
    /\ UpdateFrom("CANCELED")
    /\ call.newStatus = "CANCELED"
    /\ call.at > call.input.updatedAt
    /\ result = Success(call.input)
    /\ training = call.input

====
